---- MODULE Spec2Model ----
(***************************************************************************)
(* PageRank (src/pagerank.py): the transition model, the sampling          *)
(* estimator sample_pagerank and the iterative estimator iterate_pagerank. *)
(*                                                                         *)
(* Numbers.  The program computes with Python floats; the model computes   *)
(* with exact rationals, so that "sums to 1" and "changed by at most       *)
(* 0.001" are decided exactly.  Rounding of floats is not modelled.        *)
(*   - a dict of small rationals (transition_model's result, the sampling  *)
(*     counters) is a record [num |-> [page |-> Int], den |-> Int]: the    *)
(*     value of page p is num[p] / den;                                    *)
(*   - the rank dict of iterate_pagerank is the same record with natural   *)
(*     numbers of unbounded size (Big, below), because the denominators    *)
(*     grow with every update.                                             *)
(***************************************************************************)
EXTENDS Integers, Sequences, FiniteSets, TLC

(***************************************************************************)
(* Bounds of the model.                                                    *)
(***************************************************************************)
\* the corpora have 1..MaxPages pages
MaxPages == 3
\* a valid sample count n is in 1..MaxSamples
MaxSamples == 2
\* iterate_pagerank's while loop is followed for at most MaxPasses passes
MaxPasses == 30

(***************************************************************************)
(* Unbounded naturals: a sequence of limbs, least significant first, no    *)
(* leading zero limb; zero is <<>>.  The limb base keeps every limb        *)
(* product below 2^31 for multipliers up to 2000.                          *)
(***************************************************************************)
Base == 1000 * 1000

BigZero == <<>>

RECURSIVE BigAddCarry(_, _, _)
BigAddCarry(a, b, c) ==
    IF a = <<>> /\ b = <<>>
    THEN IF c = 0 THEN <<>> ELSE <<c>>
    ELSE LET x == IF a = <<>> THEN 0 ELSE Head(a)
             y == IF b = <<>> THEN 0 ELSE Head(b)
             s == x + y + c
         IN  <<s % Base>> \o BigAddCarry(IF a = <<>> THEN <<>> ELSE Tail(a),
                                         IF b = <<>> THEN <<>> ELSE Tail(b),
                                         s \div Base)

BigAdd(a, b) == BigAddCarry(a, b, 0)

RECURSIVE BigMulCarry(_, _, _)
BigMulCarry(a, k, c) ==
    IF a = <<>>
    THEN IF c = 0 THEN <<>> ELSE <<c % Base>> \o BigMulCarry(<<>>, k, c \div Base)
    ELSE LET s == Head(a) * k + c
         IN  <<s % Base>> \o BigMulCarry(Tail(a), k, s \div Base)

\* a * k for a natural k <= 2000
BigMulSmall(a, k) == IF k = 0 THEN <<>> ELSE BigMulCarry(a, k, 0)

BigOfInt(k) == BigMulSmall(<<1>>, k)

RECURSIVE BigDivFrom(_, _, _, _)
BigDivFrom(a, k, j, r) ==
    IF j = 0 THEN <<>>
    ELSE LET x == r * Base + a[j]
         IN  Append(BigDivFrom(a, k, j - 1, x % k), x \div k)

\* a \div k for 0 < k <= 2000
BigDivSmall(a, k) ==
    LET q == BigDivFrom(a, k, Len(a), 0)
    IN  IF q # <<>> /\ q[Len(q)] = 0 THEN SubSeq(q, 1, Len(q) - 1) ELSE q

RECURSIVE BigLeqFrom(_, _, _)
BigLeqFrom(a, b, j) ==
    IF j = 0 THEN TRUE
    ELSE IF a[j] # b[j] THEN a[j] < b[j]
    ELSE BigLeqFrom(a, b, j - 1)

\* a <= b
BigLeq(a, b) ==
    IF Len(a) # Len(b) THEN Len(a) < Len(b) ELSE BigLeqFrom(a, b, Len(a))

RECURSIVE BigSumTo(_, _)
BigSumTo(f, k) == IF k = 0 THEN <<>> ELSE BigAdd(f[k], BigSumTo(f, k - 1))

\* the sum of a function 1..N -> Big
BigSum(f) == BigSumTo(f, Cardinality(DOMAIN f))

RECURSIVE IntSumTo(_, _)
IntSumTo(f, k) == IF k = 0 THEN 0 ELSE f[k] + IntSumTo(f, k - 1)

\* the sum of a function 1..N -> Int
IntSum(f) == IntSumTo(f, Cardinality(DOMAIN f))

(***************************************************************************)
(* Inputs.                                                                 *)
(***************************************************************************)
\* DAMPING = 0.85
DAMPING == [num |-> 17, den |-> 20]

\* damping factors in the open interval (0, 1)
ValidDamping == {[num |-> 1, den |-> 2], DAMPING}
\* damping factors outside it
InvalidDamping == {[num |-> 0, den |-> 1], [num |-> 1, den |-> 1]}

\* crawl: every out-set holds keys of the corpus only, and never the page itself.
\* The pages are 1..k in the order the dict iterates over them.
CrawledCorpora(k) ==
    {c \in [1..k -> SUBSET (1..k)] : \A p \in 1..k : p \notin c[p]}

Corpora == UNION {CrawledCorpora(k) : k \in 1..MaxPages}

len(s) == Cardinality(s)

\* 0 < d < 1
InUnitInterval(d) == 0 < d.num /\ d.num < d.den

VARIABLES
    call,                \* which estimator main calls: "sample" or "iterate"
    corpus,              \* page -> set of pages it links to
    damping_factor,      \* [num, den]
    n,                   \* sample count (0 for iterate_pagerank, which has none)
    pc,                  \* "start", "sample_for", "sample_choose", "iterate_for",
                         \* "returned", "error"
    result,              \* sample_pagerank: the counters, then the returned dict
    currentPage,         \* sample_pagerank
    moves,               \* sample_pagerank: transition_model's result
    i,                   \* sample_pagerank: the loop index of line 98
    previous_Iteration,  \* iterate_pagerank: the rank dict, updated in place
    check,               \* iterate_pagerank
    page,                \* iterate_pagerank: the page the for loop of line 134 is at
    passStart,           \* history: the numerators of the ranks when the pass began,
                         \* over the denominator of previous_Iteration
    passes               \* history: the number of the current pass

vars == <<call, corpus, damping_factor, n, pc, result, currentPage, moves, i,
          previous_Iteration, check, page, passStart, passes>>

NoDict == [num |-> <<>>, den |-> 1]
\* a local that is not bound
NoPage == "none"

\* the damping factor is in (0, 1) and, for sample_pagerank, n >= 1
ValidConfig == InUnitInterval(damping_factor) /\ (call = "sample" => n >= 1)

N == len(DOMAIN corpus)

sampleVars == <<result, currentPage, moves, i>>
iterateVars == <<previous_Iteration, check, page, passStart, passes>>
inputs == <<call, corpus, damping_factor, n>>

Init ==
    /\ call \in {"sample", "iterate"}
    /\ corpus \in Corpora
    /\ \/ /\ call = "sample"
          /\ \/ damping_factor \in ValidDamping /\ n \in 1..MaxSamples
             \/ damping_factor \in InvalidDamping /\ n = 1
             \/ damping_factor = DAMPING /\ n \in {-1, 0}
       \/ /\ call = "iterate"
          /\ damping_factor \in ValidDamping \cup InvalidDamping
          /\ n = 0
    /\ pc = "start"
    /\ result = NoDict
    /\ currentPage = NoPage
    /\ moves = NoDict
    /\ i = 0
    /\ previous_Iteration = NoDict
    /\ check = 0
    /\ page = NoPage
    /\ passStart = <<>>
    /\ passes = 0

(***************************************************************************)
(* transition_model, lines 51-77.  All values over the common denominator  *)
(* d.den * N * M, where M is the number of links of the page, or N for a   *)
(* page without links.                                                     *)
(***************************************************************************)
\* transition_model without lines 72-73: a page without links gets no second term
transition_model_NoSink(c, pg, d) ==
    LET M == IF c[pg] = {} THEN len(DOMAIN c) ELSE len(c[pg])
        initual == (d.den - d.num) * M
        linked(p) == len({l \in c[pg] : p = l}) * (d.num * len(DOMAIN c))
    IN  [num |-> [p \in DOMAIN c |-> initual + linked(p)],
         den |-> d.den * len(DOMAIN c) * M]

\* transition_model with line 69 dividing by len(corpus) instead of len(corpus[page])
transition_model_LinkByCorpus(c, pg, d) ==
    LET M == IF c[pg] = {} THEN len(DOMAIN c) ELSE len(c[pg])
        initual == (d.den - d.num) * M
        linked(p) == len({l \in c[pg] : p = l}) * (d.num * M)
        unlinked == IF len(c[pg]) = 0 THEN d.num * M ELSE 0
    IN  [num |-> [p \in DOMAIN c |-> initual + linked(p) + unlinked],
         den |-> d.den * len(DOMAIN c) * M]

transition_model(c, pg, d) ==
    LET M == IF c[pg] = {} THEN len(DOMAIN c) ELSE len(c[pg])
        \* (1 - damping_factor) / len(corpus)
        initual == (d.den - d.num) * M
        \* damping_factor / len(corpus[page]), once for every i in corpus[page] with p == i
        linked(p) == len({l \in c[pg] : p = l}) * (d.num * len(DOMAIN c))
        \* damping_factor / len(corpus), when len(corpus[page]) == 0
        unlinked == IF len(c[pg]) = 0 THEN d.num * M ELSE 0
    IN  [num |-> [p \in DOMAIN c |-> initual + linked(p) + unlinked],
         den |-> d.den * len(DOMAIN c) * M]

(***************************************************************************)
(* sample_pagerank, lines 80-114.                                          *)
(***************************************************************************)
\* line 100 counting the visit for every page
Increment_All(r, pg) == [r EXCEPT !.num = [p \in DOMAIN r.num |-> r.num[p] + 1]]

\* result[currentPage] += 1
Increment(r, pg) == [r EXCEPT !.num[pg] = @ + 1]

\* random.choices(moves_name, weights=moves_chances, k=1): any page of positive weight
Choices(m) == {p \in DOMAIN m.num : m.num[p] > 0}

\* lines 89-96
SampleBegin ==
    /\ pc = "start" /\ call = "sample"
    /\ result' = [num |-> [p \in DOMAIN corpus |-> 0], den |-> 1]
    /\ currentPage' \in DOMAIN corpus
    /\ i' = 0
    /\ pc' = "sample_for"
    /\ UNCHANGED <<inputs, moves, iterateVars>>

\* lines 98-103
SampleVisit ==
    /\ pc = "sample_for" /\ i < n
    /\ result' = Increment(result, currentPage)
    /\ moves' = transition_model(corpus, currentPage, damping_factor)
    /\ pc' = "sample_choose"
    /\ UNCHANGED <<inputs, currentPage, i, iterateVars>>

\* lines 106-109; moves is not read again before line 103 rebinds it
SampleChoose ==
    /\ pc = "sample_choose"
    /\ currentPage' \in Choices(moves)
    /\ moves' = NoDict
    /\ i' = i + 1
    /\ pc' = "sample_for"
    /\ UNCHANGED <<inputs, result, iterateVars>>

\* line 112 dividing by n + 1
DivideAll_OffByOne(r, k) == [r EXCEPT !.den = @ * (k + 1)]

\* lines 111-112: result[i] = result[i] / n for every page
DivideAll(r, k) == [r EXCEPT !.den = @ * k]

\* lines 111-114; line 112 is a ZeroDivisionError when n is 0
SampleReturn ==
    /\ pc = "sample_for" /\ ~(i < n)
    /\ IF n = 0
       THEN pc' = "error" /\ UNCHANGED result
       ELSE pc' = "returned" /\ result' = DivideAll(result, n)
    /\ currentPage' = NoPage /\ moves' = NoDict /\ i' = 0
    /\ UNCHANGED <<inputs, iterateVars>>

(***************************************************************************)
(* iterate_pagerank, lines 117-158.  The rank of page p is                 *)
(* previous_Iteration.num[p] / previous_Iteration.den.  One update of a    *)
(* page multiplies the denominator by Step(corpus, damping_factor); the    *)
(* denominator is then a multiple of every number lines 135-143 divide by. *)
(***************************************************************************)
RECURSIVE Gcd(_, _)
Gcd(a, b) == IF b = 0 THEN a ELSE Gcd(b, a % b)

RECURSIVE LcmTo(_)
LcmTo(k) == IF k <= 1 THEN 1 ELSE (LcmTo(k - 1) * k) \div Gcd(LcmTo(k - 1), k)

\* a common multiple of every len(corpus[p]) line 141 can divide by: a page links
\* to at most the N - 1 other pages
Links(c) == LcmTo(len(DOMAIN c) - 1)

Step(c, d) == d.den * Links(c)

\* the dict over the denominator den * k
Rescale(r, k) ==
    [num |-> [p \in DOMAIN r.num |-> BigMulSmall(r.num[p], k)],
     den |-> BigMulSmall(r.den, k)]

\* lines 136-141: the numerator of sum_Iteration over prev.den * Links(c)
RECURSIVE sum_IterationTo(_, _, _, _)
sum_IterationTo(c, prev, pg, k) ==
    IF k = 0 THEN BigZero
    ELSE BigAdd(sum_IterationTo(c, prev, pg, k - 1),
                IF pg \in c[k]
                THEN BigMulSmall(prev.num[k], Links(c) \div len(c[k]))
                ELSE BigZero)

sum_Iteration(c, prev, pg) == sum_IterationTo(c, prev, pg, len(DOMAIN c))

\* lines 135-143: the numerator of current_Iteration over prev.den * Step(c, d);
\* prev.den is a multiple of len(corpus) from line 129 on
current_Iteration(c, d, prev, pg) ==
    BigAdd(BigMulSmall(BigDivSmall(prev.den, len(DOMAIN c)), (d.den - d.num) * Links(c)),
           BigMulSmall(sum_Iteration(c, prev, pg), d.num))

\* 0.001 = ThresholdNum / ThresholdDen
ThresholdNum == 1
ThresholdDen == 1000

\* a/den - b/den <= 0.001
DiffLeqThreshold(a, b, den) ==
    BigLeq(BigMulSmall(a, ThresholdDen),
           BigAdd(BigMulSmall(den, ThresholdNum), BigMulSmall(b, ThresholdDen)))

\* abs() of a bool: abs(True) is 1, abs(False) is 0
AbsBool(b) == IF b THEN 1 ELSE 0

\* line 146 counting the pages whose rank fell by more than 0.001
ChangeCheck_FellMore(prevNum, curNum, den) == ~DiffLeqThreshold(prevNum, curNum, den)

\* line 146: abs(previous_Iteration[i] - current_Iteration <= 0.001), as an if condition
ChangeCheck(prevNum, curNum, den) == AbsBool(DiffLeqThreshold(prevNum, curNum, den)) # 0

\* line 154
normalizer(prev) == BigSum(prev.num)

\* lines 155-156 left out
Normalize_Skipped(prev) == prev

\* lines 155-156: (num/den) / (normalizer/den) = num / normalizer
Normalize(prev) == [num |-> prev.num, den |-> normalizer(prev)]

\* lines 126-132
IterateBegin ==
    /\ pc = "start" /\ call = "iterate"
    /\ previous_Iteration' = [num |-> [p \in DOMAIN corpus |-> BigOfInt(1)],
                              den |-> BigOfInt(len(DOMAIN corpus))]
    /\ check' = 0
    /\ page' = 1
    /\ passStart' = [p \in DOMAIN corpus |-> BigOfInt(1)]
    /\ passes' = 1
    /\ pc' = "iterate_for"
    /\ UNCHANGED <<inputs, sampleVars>>

\* lines 134-149, for one page i of the for loop
IterateUpdate ==
    /\ pc = "iterate_for" /\ page <= len(DOMAIN corpus)
    /\ LET k == Step(corpus, damping_factor)
           cur == current_Iteration(corpus, damping_factor, previous_Iteration, page)
           scaled == Rescale(previous_Iteration, k)
       IN  /\ check' = IF ChangeCheck(scaled.num[page], cur, scaled.den)
                       THEN check + 1 ELSE check
           /\ previous_Iteration' = [scaled EXCEPT !.num[page] = cur]
           /\ passStart' = [p \in DOMAIN passStart |-> BigMulSmall(passStart[p], k)]
    /\ page' = page + 1
    /\ UNCHANGED <<inputs, sampleVars, passes, pc>>

\* line 152 false, then lines 131-132
IterateAgain ==
    /\ pc = "iterate_for" /\ page > len(DOMAIN corpus)
    /\ check # len(DOMAIN corpus)
    /\ passes < MaxPasses
    /\ check' = 0
    /\ page' = 1
    /\ passStart' = previous_Iteration.num
    /\ passes' = passes + 1
    /\ UNCHANGED <<inputs, sampleVars, previous_Iteration, pc>>

\* lines 152-158; line 156 is a ZeroDivisionError when normalizer is 0
IterateReturn ==
    /\ pc = "iterate_for" /\ page > len(DOMAIN corpus)
    /\ check = len(DOMAIN corpus)
    /\ IF normalizer(previous_Iteration) = BigZero
       THEN pc' = "error" /\ UNCHANGED previous_Iteration
       ELSE pc' = "returned" /\ previous_Iteration' = Normalize(previous_Iteration)
    /\ check' = 0 /\ page' = NoPage /\ passStart' = <<>>
    /\ UNCHANGED <<inputs, sampleVars, passes>>

Next ==
    \/ SampleBegin
    \/ SampleVisit
    \/ SampleChoose
    \/ SampleReturn
    \/ IterateBegin
    \/ IterateUpdate
    \/ IterateAgain
    \/ IterateReturn

Spec == Init /\ [][Next]_vars

\* main's call of sample_pagerank alone
InitSample == Init /\ call = "sample"

NextSample ==
    \/ SampleBegin
    \/ SampleVisit
    \/ SampleChoose
    \/ SampleReturn

SpecSample == InitSample /\ [][NextSample]_vars

\* main's call of iterate_pagerank alone
InitIterate == Init /\ call = "iterate"

NextIterate ==
    \/ IterateBegin
    \/ IterateUpdate
    \/ IterateAgain
    \/ IterateReturn

SpecIterate == InitIterate /\ [][NextIterate]_vars

\* The control flow of NextIterate: where each of its four actions takes pc, page
\* and passes, without the ranks.
control == <<pc, page, passes>>

Advance ==
    \/ /\ pc = "start" /\ call = "iterate"
       /\ pc' = "iterate_for" /\ page' = 1 /\ passes' = 1
    \/ /\ pc = "iterate_for" /\ page <= N
       /\ pc' = pc /\ page' = page + 1 /\ passes' = passes
    \/ /\ pc = "iterate_for" /\ page > N /\ check # N /\ passes < MaxPasses
       /\ pc' = pc /\ page' = 1 /\ passes' = passes + 1
    \/ /\ pc = "iterate_for" /\ page > N /\ check = N
       /\ pc' \in {"returned", "error"} /\ page' = NoPage /\ passes' = passes

\* The interpreter keeps running the program: while iterate_pagerank has a next
\* statement, it is executed.
FairSpecIterate == SpecIterate /\ WF_control(Advance)

(***************************************************************************)
(* Properties.                                                             *)
(***************************************************************************)
\* a well-formed Big: limbs in 0..Base-1, no leading zero limb
IsBig(a) ==
    /\ \A j \in 1..Len(a) : a[j] \in 0..(Base - 1)
    /\ a # <<>> => a[Len(a)] # 0

\* |a/den - b/den| <= 0.001
WithinThreshold(a, b, den) ==
    DiffLeqThreshold(a, b, den) /\ DiffLeqThreshold(b, a, den)

\* the pages p that are sinks, as a 0/1 function, to sum their ranks
RECURSIVE SinkSumTo(_, _, _)
SinkSumTo(c, prev, k) ==
    IF k = 0 THEN BigZero
    ELSE BigAdd(SinkSumTo(c, prev, k - 1), IF c[k] = {} THEN prev.num[k] ELSE BigZero)

\* C1: for every corpus, every page of it (sinks included) and every damping
\* factor in (0,1), transition_model returns a mapping whose keys are exactly the
\* pages of the corpus, whose values are non-negative and sum to exactly 1.
C1_TransitionIsDistribution ==
    (pc = "sample_choose" /\ InUnitInterval(damping_factor)) =>
        /\ DOMAIN moves.num = DOMAIN corpus
        /\ moves.den > 0
        /\ \A p \in DOMAIN corpus : moves.num[p] >= 0
        /\ IntSum(moves.num) = moves.den

\* transition_model has been called for a sink of a corpus of several pages
C1_Witness ==
    /\ pc = "sample_choose" /\ InUnitInterval(damping_factor)
    /\ N >= 2 /\ corpus[currentPage] = {}

\* C10: transition_model gives page p exactly (1-d)/N + d/|out(c)| when out(c) is
\* not empty and holds p, (1-d)/N when out(c) is not empty and does not hold p,
\* and 1/N when out(c) is empty.
C10_TransitionValues ==
    (pc = "sample_choose" /\ InUnitInterval(damping_factor)) =>
        LET d == damping_factor
            out == corpus[currentPage]
        IN  \A p \in DOMAIN corpus :
                /\ (out # {} /\ p \in out) =>
                     moves.num[p] * (d.den * N * len(out))
                       = ((d.den - d.num) * len(out) + d.num * N) * moves.den
                /\ (out # {} /\ p \notin out) =>
                     moves.num[p] * (d.den * N) = (d.den - d.num) * moves.den
                /\ out = {} => moves.num[p] * N = moves.den

\* transition_model has been called for a page that links to some pages and not
\* to others
C10_Witness ==
    /\ pc = "sample_choose" /\ InUnitInterval(damping_factor)
    /\ N = 3 /\ len(corpus[currentPage]) = 1

\* the counters sum to the number of iterations made; the returned values are
\* each in [0,1] and sum to 1
C4_Counters ==
    (call = "sample" /\ ValidConfig) =>
        /\ pc = "sample_for" => result.den = 1 /\ IntSum(result.num) = i
        /\ pc = "sample_choose" => result.den = 1 /\ IntSum(result.num) = i + 1
        /\ pc = "returned" =>
             /\ result.den > 0
             /\ \A p \in DOMAIN corpus : 0 <= result.num[p] /\ result.num[p] <= result.den
             /\ IntSum(result.num) = result.den

\* lines 98-103 add 1 to the counter of one page and leave the others alone
C4_OneIncrement ==
    (ValidConfig /\ pc = "sample_for" /\ pc' = "sample_choose") =>
        \E p \in DOMAIN corpus :
            /\ result'.num[p] = result.num[p] + 1
            /\ \A q \in DOMAIN corpus \ {p} : result'.num[q] = result.num[q]

\* C4: in each of its n loop iterations sample_pagerank increments the counter of
\* exactly one page and leaves the others alone (after k iterations the counters
\* sum to k), so the returned values are each in [0,1] and sum to exactly 1.
C4_SampleCounts == []C4_Counters /\ [][C4_OneIncrement]_vars

\* sample_pagerank has returned after visiting two different pages
C4_Witness ==
    /\ call = "sample" /\ ValidConfig /\ pc = "returned"
    /\ n = 2 /\ \E p \in DOMAIN corpus : result.num[p] = 1

\* C3: whenever iterate_pagerank returns, for a damping factor in (0,1), the
\* returned mapping has exactly the pages of the corpus as keys, every value is
\* non-negative and the values sum to 1; the normalizer it divides by is never
\* zero, so that line 156 never fails.
C3_IterateIsDistribution ==
    (call = "iterate" /\ InUnitInterval(damping_factor)) =>
        /\ pc # "error"
        /\ (pc = "iterate_for" /\ page > N /\ check = N) =>
               normalizer(previous_Iteration) # BigZero
        /\ pc = "returned" =>
             /\ DOMAIN previous_Iteration.num = DOMAIN corpus
             /\ \A p \in DOMAIN corpus : IsBig(previous_Iteration.num[p])
             /\ IsBig(previous_Iteration.den) /\ previous_Iteration.den # BigZero
             /\ BigSum(previous_Iteration.num) = previous_Iteration.den

\* iterate_pagerank has returned for a corpus of three pages with a sink, after
\* several passes
C3_Witness ==
    /\ call = "iterate" /\ InUnitInterval(damping_factor) /\ pc = "returned"
    /\ N = 3 /\ \E p \in DOMAIN corpus : corpus[p] = {}
    /\ passes >= 3

\* C5: iterate_pagerank terminates for every corpus and every damping factor in
\* (0,1): its while loop reaches the return statement.
C5_IterateTerminates ==
    (call = "iterate" /\ InUnitInterval(damping_factor)) ~> (pc = "returned")

\* iterate_pagerank has returned after going round its while loop several times
C5_Witness ==
    /\ call = "iterate" /\ InUnitInterval(damping_factor) /\ pc = "returned"
    /\ passes >= 5

\* C7: for the corpus of a single page without links, every damping factor in
\* (0,1) and every n >= 1, sample_pagerank and iterate_pagerank both return the
\* mapping that gives the page exactly 1.
C7_SinglePage ==
    (ValidConfig /\ N = 1 /\ pc = "returned") =>
        /\ call = "sample" =>
             /\ DOMAIN result.num = {1}
             /\ result.num[1] = result.den /\ result.den # 0
        /\ call = "iterate" =>
             /\ DOMAIN previous_Iteration.num = {1}
             /\ previous_Iteration.num[1] = previous_Iteration.den
             /\ previous_Iteration.den # BigZero

\* iterate_pagerank has returned for the single page, after a second pass
C7_Witness ==
    /\ ValidConfig /\ N = 1 /\ pc = "returned"
    /\ call = "iterate" /\ passes = 2

\* sample_pagerank has returned for the single page after two samples
C7_WitnessSample ==
    /\ ValidConfig /\ N = 1 /\ pc = "returned"
    /\ call = "sample" /\ n = 2

\* C2: in every pass of iterate_pagerank a page p without links counts as linking
\* to every page: the new rank of page i is
\*   (1 - d)/N + d * (sum over the p that link to i of rank(p)/|out(p)|
\*                    + sum over the p without links of rank(p)/N),
\* with rank the dict as line 141 reads it.  Both sides are taken over the
\* denominator previous_Iteration.den * Step * N.
C2_SinkCountsAsLinkingToAll ==
    [][(pc = "iterate_for" /\ pc' = "iterate_for" /\ page' = page + 1
          /\ InUnitInterval(damping_factor)) =>
        LET d == damping_factor
            prev == previous_Iteration
        IN  BigMulSmall(prev'.num[page], N)
              = BigAdd(BigMulSmall(prev.den, (d.den - d.num) * Links(corpus)),
                  BigAdd(BigMulSmall(sum_Iteration(corpus, prev, page), d.num * N),
                         BigMulSmall(SinkSumTo(corpus, prev, N),
                                     d.num * Links(corpus))))]_vars

\* C6: an invalid configuration (n <= 0 for sample_pagerank, a damping factor
\* outside (0,1) for either estimator) is rejected with an error before any
\* counter or rank is computed, and no distribution is ever returned.
C6_InvalidConfigRejected ==
    ~ValidConfig =>
        /\ pc # "returned"
        /\ pc = "error" => result = NoDict /\ previous_Iteration = NoDict

\* C8: iterate_pagerank returns only after a pass in which the rank of every page
\* changed by no more than 0.001 in absolute value.  The state is the one at
\* line 152 with check == len(corpus), from which line 158 returns.
C8_ReturnsOnlyWhenSettled ==
    (pc = "iterate_for" /\ page > N /\ check = N /\ InUnitInterval(damping_factor)) =>
        \A p \in DOMAIN corpus :
            WithinThreshold(passStart[p], previous_Iteration.num[p],
                            previous_Iteration.den)

\* C9: within one pass the new rank of every page is computed from the ranks all
\* pages held when the pass began.  For every page j the pass has updated, the
\* rank of j (scaled by Step to the denominator of the right-hand side) is the
\* value of lines 135-143 on the snapshot passStart.
C9_SynchronousUpdate ==
    (pc = "iterate_for" /\ InUnitInterval(damping_factor)) =>
        \A j \in 1..(page - 1) :
            BigMulSmall(previous_Iteration.num[j], Step(corpus, damping_factor))
              = current_Iteration(corpus, damping_factor,
                                  [num |-> passStart, den |-> previous_Iteration.den], j)

====
